---- MODULE Spec2Model ----
(***************************************************************************)
(* Model of the medical file viewer: FileHandler (validation and file type *)
(* classification), App (upload / drop / clear handlers with their pending *)
(* classifications), VideoPlayer (effect, cleanup, object URLs, rendering  *)
(* engine) and Referance_cursor (init / cleanup under React.StrictMode).   *)
(*                                                                         *)
(* JavaScript strings that the code inspects character by character (file  *)
(* names, MIME types) are sequences of one-character strings.  An optional *)
(* JavaScript value (undefined or a value) is a sequence of length <= 1.   *)
(***************************************************************************)
EXTENDS Integers, Sequences, FiniteSets, TLC

\* ------------------------------------------------------------------ bounds
MaxFrames == 5
SizeSlack == 2
MaxPending == 2
MaxSelections == 3
MaxEffects == 2
MaxMounts == 2

\* --------------------------------------------------------- string helpers
UpperCase == <<"A","B","C","D","E","F","G","H","I","J","K","L","M",
               "N","O","P","Q","R","S","T","U","V","W","X","Y","Z">>
LowerCase == <<"a","b","c","d","e","f","g","h","i","j","k","l","m",
               "n","o","p","q","r","s","t","u","v","w","x","y","z">>

toLowerChar(c) ==
    IF \E i \in 1..26 : UpperCase[i] = c
    THEN LowerCase[CHOOSE i \in 1..26 : UpperCase[i] = c]
    ELSE c

toLowerCase(s) == [i \in 1..Len(s) |-> toLowerChar(s[i])]

endsWith(s, suffix) ==
    /\ Len(s) >= Len(suffix)
    /\ SubSeq(s, Len(s) - Len(suffix) + 1, Len(s)) = suffix

includes(s, sub) ==
    \E i \in 1..(Len(s) - Len(sub) + 1) : SubSeq(s, i, i + Len(sub) - 1) = sub

\* ------------------------------------------------------------ FileHandler
dcmExtension == <<".", "d", "c", "m">>
dicomMimeType == <<"a","p","p","l","i","c","a","t","i","o","n","/","d","i","c","o","m">>

\* isDicomFile comparing the name as given
isDicomFile_caseSensitive(file) ==
    \/ endsWith(file.name, dcmExtension)
    \/ file.type = dicomMimeType

isDicomFile(file) ==
    \/ endsWith(toLowerCase(file.name), dcmExtension)
    \/ file.type = dicomMimeType

videoExtensions ==
    << <<".", "m", "p", "4">>, <<".", "a", "v", "i">>, <<".", "m", "o", "v">>,
       <<".", "w", "m", "v">>, <<".", "f", "l", "v">>, <<".", "w", "e", "b", "m">>,
       <<".", "m", "p", "e", "g">>, <<".", "m", "p", "g">> >>

videoMimeTypes ==
    << <<"v", "i", "d", "e", "o", "/", "m", "p", "4">>,
       <<"v", "i", "d", "e", "o", "/", "a", "v", "i">>,
       <<"v", "i", "d", "e", "o", "/", "q", "u", "i", "c", "k", "t", "i", "m", "e">>,
       <<"v", "i", "d", "e", "o", "/", "x", "-", "m", "s", "-", "w", "m", "v">> >>

isVideoFile(file) ==
    \/ \E i \in 1..Len(videoMimeTypes) : includes(file.type, videoMimeTypes[i])
    \/ \E i \in 1..Len(videoExtensions) :
          endsWith(toLowerCase(file.name), videoExtensions[i])

imageExtensions ==
    << <<".", "j", "p", "g">>, <<".", "j", "p", "e", "g">>, <<".", "p", "n", "g">>,
       <<".", "g", "i", "f">>, <<".", "b", "m", "p">>, <<".", "t", "i", "f", "f">> >>

imageMimeTypes ==
    << <<"i", "m", "a", "g", "e", "/", "j", "p", "e", "g">>,
       <<"i", "m", "a", "g", "e", "/", "p", "n", "g">>,
       <<"i", "m", "a", "g", "e", "/", "g", "i", "f">>,
       <<"i", "m", "a", "g", "e", "/", "b", "m", "p">>,
       <<"i", "m", "a", "g", "e", "/", "t", "i", "f", "f">> >>

isImageFile(file) ==
    \/ \E i \in 1..Len(imageMimeTypes) : includes(file.type, imageMimeTypes[i])
    \/ \E i \in 1..Len(imageExtensions) :
          endsWith(toLowerCase(file.name), imageExtensions[i])

\* ------------------------------------------- VideoPlayer module functions
\* The external collaborator's answers for one file are the file's "probe":
\*   fail   : "none", or the call that throws: "import" (the dynamic import),
\*            "register" (fileManager.add), "metadata" (metaData.get)
\*   sop    : optional sopCommonModule.sopClassUID
\*   mfm    : optional multiframeModule.numberOfFrames
\*   direct : optional metaData.get("numberOfFrames")

\* fileToImageId: TRUE when dicomImageLoader.wadouri.fileManager.add returns
fileToImageId(file) == file.probe.fail # "register"

videoSopClasses ==
    { "1.2.840.10008.5.1.4.1.1.77.1.1.1",
      "1.2.840.10008.5.1.4.1.1.77.1.2.1",
      "1.2.840.10008.5.1.4.1.1.77.1.4.1",
      "1.2.840.10008.5.1.4.1.1.181.1",
      "1.2.840.10008.5.1.4.1.1.6.2",
      "1.2.840.10008.5.1.4.1.1.3.1",
      "1.2.840.10008.5.1.4.1.1.12.1",
      "1.2.840.10008.5.1.4.1.1.12.2" }

\* JavaScript truthiness of an optional number
Truthy(v) == v # <<>> /\ v[1] # 0

\* JavaScript a || b on optional numbers
OrElse(a, b) == IF Truthy(a) THEN a ELSE b

\* isDicomVideo deciding by the SOP class alone
isDicomVideoBody_sopOnly(probe) ==
    LET sopClassUID == IF probe.sop = <<>> \/ probe.sop = <<"">>
                       THEN "" ELSE probe.sop[1]
    IN  sopClassUID \in videoSopClasses

\* the try block of isDicomVideo
isDicomVideoBody(probe) ==
    LET numberOfFrames == OrElse(OrElse(probe.mfm, probe.direct), <<1>>)
        sopClassUID == IF probe.sop = <<>> \/ probe.sop = <<"">>
                       THEN "" ELSE probe.sop[1]
    IN  sopClassUID \in videoSopClasses \/ numberOfFrames[1] > 1

isDicomVideo(probe) ==
    IF probe.fail = "metadata" THEN FALSE ELSE isDicomVideoBody(probe)

\* ------------------------------------------------------------ FileHandler
\* the DICOM branch without its catch: a throw rejects the promise
dicomBranch_noCatch(file) ==
    IF file.probe.fail = "import" \/ ~fileToImageId(file)
    THEN [ok |-> FALSE]
    ELSE [ok |-> TRUE,
          tag |-> IF isDicomVideo(file.probe) THEN "dicom-video" ELSE "dicom-image"]

\* the DICOM branch of getDetailedFileType: try { ... } catch { ... }
dicomBranch(file) ==
    IF file.probe.fail = "import" \/ ~fileToImageId(file)
    THEN [ok |-> TRUE, tag |-> "dicom-image"]
    ELSE [ok |-> TRUE,
          tag |-> IF isDicomVideo(file.probe) THEN "dicom-video" ELSE "dicom-image"]

\* getDetailedFileType with the video rule tried before the DICOM rule
getDetailedFileType_videoFirst(file) ==
    IF isVideoFile(file) THEN [ok |-> TRUE, tag |-> "regular-video"]
    ELSE IF isDicomFile(file) THEN dicomBranch(file)
    ELSE IF isImageFile(file) THEN [ok |-> TRUE, tag |-> "regular-image"]
    ELSE [ok |-> TRUE, tag |-> "unknown"]

\* the promise's outcome: ok = resolved with tag, ~ok = rejected
getDetailedFileType(file) ==
    IF isDicomFile(file) THEN dicomBranch(file)
    ELSE IF isVideoFile(file) THEN [ok |-> TRUE, tag |-> "regular-video"]
    ELSE IF isImageFile(file) THEN [ok |-> TRUE, tag |-> "regular-image"]
    ELSE [ok |-> TRUE, tag |-> "unknown"]

\* Number.prototype.toFixed(1) of size / unit, in tenths; size / unit is exact
\* in binary floating point (unit is a power of two), ties round up
toFixed1(size, unit) ==
    (size \div unit) * 10 + (((size % unit) * 10 + (unit \div 2)) \div unit)

getFileSize(file) ==
    LET size == file.size
    IN  IF size < 1024 THEN <<size, " B">>
        ELSE IF size < 1024 * 1024
             THEN <<toFixed1(size, 1024) \div 10, ".", toFixed1(size, 1024) % 10, " KB">>
        ELSE <<toFixed1(size, 1024 * 1024) \div 10, ".",
               toFixed1(size, 1024 * 1024) % 10, " MB">>

maxSize == 200 * 1024 * 1024

\* validateFile with the size test as >=
validateFile_sizeInclusive(file) ==
    LET tooLarge == IF file.size >= maxSize
                    THEN << <<"File too large (">> \o getFileSize(file) \o <<" > 200MB)">> >>
                    ELSE << >>
        empty == IF file.size = 0 THEN << <<"File is empty">> >> ELSE << >>
        errors == tooLarge \o empty
    IN  [isValid |-> Len(errors) = 0, errors |-> errors]

\* validateFile without the empty-file rule
validateFile_noEmptyRule(file) ==
    LET tooLarge == IF file.size > maxSize
                    THEN << <<"File too large (">> \o getFileSize(file) \o <<" > 200MB)">> >>
                    ELSE << >>
        errors == tooLarge
    IN  [isValid |-> Len(errors) = 0, errors |-> errors]

validateFile(file) ==
    LET tooLarge == IF file.size > maxSize
                    THEN << <<"File too large (">> \o getFileSize(file) \o <<" > 200MB)">> >>
                    ELSE << >>
        empty == IF file.size = 0 THEN << <<"File is empty">> >> ELSE << >>
        errors == tooLarge \o empty
    IN  [isValid |-> Len(errors) = 0, errors |-> errors]

\* Array.prototype.join(', ') on the messages
RECURSIVE join(_)
join(errors) ==
    IF Len(errors) = 0 THEN <<>>
    ELSE IF Len(errors) = 1 THEN errors[1]
    ELSE errors[1] \o <<", ">> \o join(Tail(errors))

\* ------------------------------------------------------------------ state
VARIABLES
    \* FileHandler called on its own
    pFile, pValidation, pResult,
    \* App: useState values, the getDetailedFileType calls in flight, and
    \* bookkeeping (File objects handed over so far, the latest selection,
    \* what the last handler did)
    file, fileType, validationError, isLoading, pending, selections, latest, last,
    \* VideoPlayer: the mounted instance (0 = none), its props, useState and
    \* useRef values, the videoUrl its current cleanup closure holds, the
    \* suspended handleFile runs, and the object URLs and rendering engines
    \* that exist, each named by the effect run that created it
    vpInst, vpProps, videoUrl, capturedUrl, renderingEngineRef, vpError, tasks,
    effects, liveUrls, revokedUrls, liveEngines, destroyedEngines, cleaned,
    \* and, for each effect run, its fileType and the presentation calls its
    \* handleFile run has made
    presented,
    \* Referance_cursor: whether it is mounted, the effect runs so far, each
    \* init() run's position, the engine each effect closure holds, the tool
    \* group, and the effect runs whose cleanup has run
    cMounted, cEffects, cInits, cLiveEngines, cToolGroup, cCleaned

pureVars == <<pFile, pValidation, pResult>>
appVars == <<file, fileType, validationError, isLoading, pending, selections, latest, last>>
playerVars == <<vpInst, vpProps, videoUrl, capturedUrl, renderingEngineRef, vpError, tasks,
                effects, liveUrls, revokedUrls, liveEngines, destroyedEngines, cleaned,
                presented>>
cursorVars == <<cMounted, cEffects, cInits, cLiveEngines, cToolGroup, cCleaned>>
vars == <<pureVars, appVars, playerVars, cursorVars>>

\* ----------------------------------------------------------------- inputs
CtImageStorage == "1.2.840.10008.5.1.4.1.1.2"

FrameValues == { <<>> } \cup { <<n>> : n \in 0..MaxFrames }

\* the direct lookup is read only when multiframeModule gives no usable count
DirectFrameValues == { <<>>, <<0>>, <<1>>, <<MaxFrames>> }

SopValues == { <<>>, <<"">>, <<CtImageStorage>> } \cup { <<u>> : u \in videoSopClasses }

Probes ==
    [fail : {"none"}, sop : SopValues, mfm : FrameValues, direct : DirectFrameValues]
    \cup [fail : {"import", "register", "metadata"},
          sop : {<<CtImageStorage>>}, mfm : {<<MaxFrames>>}, direct : {<<>>}]

NoProbe == [fail |-> "register", sop |-> <<>>, mfm |-> <<>>, direct |-> <<>>]

Names ==
    { <<"s", "c", "a", "n", ".", "d", "c", "m">>,
      <<"F", "I", "L", "E", ".", "D", "C", "M">>,
      <<"F", "i", "l", "e", ".", "D", "c", "m">>,
      <<"v", "i", "d", "e", "o", ".", "m", "p", "4">>,
      <<"C", "L", "I", "P", ".", "M", "O", "V">>,
      <<"s", "c", "a", "n", ".", "p", "n", "g">>,
      <<"p", "h", "o", "t", "o", ".", "j", "p", "e", "g">>,
      <<"P", "I", "C", ".", "P", "n", "G">>,
      <<"d", "a", "t", "a", ".", "x", "y", "z">>,
      <<"d", "c", "m">>,
      <<"a", ".", "d", "c", "m", ".", "t", "x", "t">> }

MimeTypes ==
    { <<>>,
      <<"a","p","p","l","i","c","a","t","i","o","n","/","d","i","c","o","m">>,
      <<"A","p","p","l","i","c","a","t","i","o","n","/","D","I","C","O","M">>,
      <<"a","p","p","l","i","c","a","t","i","o","n","/","d","i","c","o","m","+","j","s","o","n">>,
      <<"v", "i", "d", "e", "o", "/", "m", "p", "4">>,
      <<"V", "I", "D", "E", "O", "/", "M", "P", "4">>,
      <<"v", "i", "d", "e", "o", "/", "m", "p", "4", ";", "c", "o", "d", "e", "c", "s", "=", "a", "v", "c", "1">>,
      <<"i", "m", "a", "g", "e", "/", "p", "n", "g">>,
      <<"t", "e", "x", "t", "/", "p", "l", "a", "i", "n">> }

Sizes ==
    {0, 1, 1023, 1024, 1024 * 1024 - 1, 1024 * 1024}
    \cup { s \in (maxSize - SizeSlack)..(maxSize + SizeSlack) : TRUE }

\* getDetailedFileType reads name, type and the probe; validateFile reads size
ClassifyInputs == [name : Names, type : MimeTypes, size : {1024}, probe : Probes]

ValidateInputs ==
    [name : {<<"v", "i", "d", "e", "o", ".", "m", "p", "4">>},
     type : {<<"v", "i", "d", "e", "o", "/", "m", "p", "4">>},
     size : Sizes, probe : {NoProbe}]

PureFiles == ClassifyInputs \cup ValidateInputs

None == [none |-> TRUE]

\* ------------------------------------------- FileHandler called on its own
PureInit ==
    /\ pFile \in PureFiles
    /\ pValidation = None
    /\ pResult = None

PureIdle ==
    /\ pFile = None
    /\ pValidation = None
    /\ pResult = None

CallValidateFile ==
    /\ pFile # None
    /\ pValidation = None
    /\ pValidation' = validateFile(pFile)
    /\ UNCHANGED <<pFile, pResult, appVars, playerVars, cursorVars>>

CallGetDetailedFileType ==
    /\ pFile # None
    /\ pResult = None
    /\ pResult' = getDetailedFileType(pFile)
    /\ UNCHANGED <<pFile, pValidation, appVars, playerVars, cursorVars>>


\* -------------------------------------------------------------------- App
\* the files a user picks or drops in the App specification
DicomVideoFile ==
    [name |-> <<"s", "c", "a", "n", ".", "d", "c", "m">>,
     type |-> dicomMimeType, size |-> 1024 * 1024,
     probe |-> [fail |-> "none", sop |-> <<"1.2.840.10008.5.1.4.1.1.6.2">>,
                mfm |-> <<MaxFrames>>, direct |-> <<>>]]

DicomImageFile ==
    [name |-> <<"F", "I", "L", "E", ".", "D", "C", "M">>,
     type |-> <<>>, size |-> 1024,
     probe |-> [fail |-> "none", sop |-> <<CtImageStorage>>, mfm |-> <<>>, direct |-> <<>>]]

DicomBrokenFile ==
    [name |-> <<"s", "c", "a", "n", ".", "d", "c", "m">>,
     type |-> <<>>, size |-> 1,
     probe |-> [fail |-> "register", sop |-> <<>>, mfm |-> <<>>, direct |-> <<>>]]

DicomUnreadableFile ==
    [name |-> <<"F", "i", "l", "e", ".", "D", "c", "m">>,
     type |-> <<>>, size |-> 1,
     probe |-> [fail |-> "metadata", sop |-> <<>>, mfm |-> <<MaxFrames>>, direct |-> <<>>]]

RegularVideoFile ==
    [name |-> <<"v", "i", "d", "e", "o", ".", "m", "p", "4">>,
     type |-> <<"v", "i", "d", "e", "o", "/", "m", "p", "4">>,
     size |-> maxSize, probe |-> NoProbe]

RegularImageFile ==
    [name |-> <<"s", "c", "a", "n", ".", "p", "n", "g">>,
     type |-> <<>>, size |-> 1023, probe |-> NoProbe]

UnknownFile ==
    [name |-> <<"d", "a", "t", "a", ".", "x", "y", "z">>,
     type |-> <<>>, size |-> 1, probe |-> NoProbe]

EmptyFile ==
    [name |-> <<"v", "i", "d", "e", "o", ".", "m", "p", "4">>,
     type |-> <<"v", "i", "d", "e", "o", "/", "m", "p", "4">>,
     size |-> 0, probe |-> NoProbe]

TooLargeFile ==
    [name |-> <<"s", "c", "a", "n", ".", "d", "c", "m">>,
     type |-> dicomMimeType, size |-> maxSize + 1,
     probe |-> [fail |-> "none", sop |-> <<CtImageStorage>>, mfm |-> <<>>, direct |-> <<>>]]

AppFiles ==
    { DicomVideoFile, DicomImageFile, DicomBrokenFile, DicomUnreadableFile, RegularVideoFile,
      RegularImageFile, UnknownFile, EmptyFile, TooLargeFile }

\* event.target.files?.[0] || null : nothing, or a file
FileLists == { <<>> } \cup { <<f>> : f \in AppFiles }

\* const [file, ...], [fileType, ...], [validationError, ...], [isLoading, ...]
AppInit ==
    /\ file = <<>>
    /\ fileType = "unknown"
    /\ validationError = <<>>
    /\ isLoading = FALSE
    /\ pending = {}
    /\ selections = 0
    /\ latest = 0
    /\ last = [op |-> "mount", id |-> 0, rejected |-> FALSE, dicom |-> FALSE]

\* the render: which controls exist
InputRendered == ~isLoading /\ file = <<>>
RemoveButtonRendered == ~isLoading /\ file # <<>>

\* a getDetailedFileType call on a DICOM candidate waits for the dynamic
\* import and stays pending across events; any other call has resolved by the
\* time the handler's await resumes, before the next event
StaysPending(f) == isDicomFile(f)

\* the handler from the await on, without its setFileType(type)
AfterAwait_noSetFileType(h, fileNow, typeNow, errorNow) ==
    LET type == getDetailedFileType(h.f)
    IN  /\ file' = IF type.ok THEN <<h>> ELSE fileNow
        /\ fileType' = typeNow
        /\ validationError' =
              IF type.ok THEN errorNow ELSE <<"Error processing file: ", "message">>
        /\ isLoading' = FALSE

\* the handler from the await on: try { setFileType; setFile } catch {
\* setValidationError } finally { setIsLoading(false) }
AfterAwait(h, fileNow, typeNow, errorNow) ==
    LET type == getDetailedFileType(h.f)
    IN  /\ file' = IF type.ok THEN <<h>> ELSE fileNow
        /\ fileType' = IF type.ok THEN type.tag ELSE typeNow
        /\ validationError' =
              IF type.ok THEN errorNow ELSE <<"Error processing file: ", "message">>
        /\ isLoading' = FALSE

\* the handler from validateFile on, given the state its resets left
FromValidation(op, h, fileNow, typeNow, errorNow) ==
    LET validation == validateFile(h.f)
    IN  IF ~validation.isValid
        THEN /\ file' = fileNow
             /\ fileType' = typeNow
             /\ validationError' = join(validation.errors)
             /\ UNCHANGED <<isLoading, pending>>
             /\ last' = [op |-> op, id |-> h.id, rejected |-> TRUE, dicom |-> isDicomFile(h.f)]
        ELSE IF StaysPending(h.f)
        THEN /\ Cardinality(pending) < MaxPending
             /\ file' = fileNow
             /\ fileType' = typeNow
             /\ validationError' = errorNow
             /\ isLoading' = TRUE
             /\ pending' = pending \cup {h}
             /\ last' = [op |-> op, id |-> h.id, rejected |-> FALSE, dicom |-> TRUE]
        ELSE /\ AfterAwait(h, fileNow, typeNow, errorNow)
             /\ UNCHANGED pending
             /\ last' = [op |-> op, id |-> h.id, rejected |-> FALSE, dicom |-> FALSE]

handleUpload(files) ==
    /\ InputRendered
    /\ IF files = <<>>
       THEN /\ file' = <<>>
            /\ fileType' = "unknown"
            /\ validationError' = <<>>
            /\ latest' = 0
            /\ last' = [op |-> "handleUpload", id |-> 0, rejected |-> FALSE, dicom |-> FALSE]
            /\ UNCHANGED <<isLoading, pending, selections>>
       ELSE /\ selections < MaxSelections
            /\ selections' = selections + 1
            /\ latest' = selections + 1
            /\ FromValidation("handleUpload", [f |-> files[1], id |-> selections + 1],
                              <<>>, "unknown", <<>>)

handleDrop(files) ==
    IF files = <<>>
    THEN /\ last' = [op |-> "handleDrop", id |-> 0, rejected |-> FALSE, dicom |-> FALSE]
         /\ UNCHANGED <<file, fileType, validationError, isLoading, pending,
                        selections, latest>>
    ELSE /\ selections < MaxSelections
         /\ selections' = selections + 1
         /\ latest' = selections + 1
         /\ FromValidation("handleDrop", [f |-> files[1], id |-> selections + 1],
                           file, fileType, validationError)

\* a pending getDetailedFileType call settles and its handler resumes
resolve(h) ==
    /\ h \in pending
    /\ pending' = pending \ {h}
    /\ AfterAwait(h, file, fileType, validationError)
    /\ last' = [op |-> "resolve", id |-> h.id, rejected |-> FALSE, dicom |-> TRUE]
    /\ UNCHANGED <<selections, latest>>

clearFile ==
    /\ RemoveButtonRendered
    /\ file' = <<>>
    /\ fileType' = "unknown"
    /\ validationError' = <<>>
    /\ latest' = 0
    /\ last' = [op |-> "clearFile", id |-> 0, rejected |-> FALSE, dicom |-> FALSE]
    /\ UNCHANGED <<isLoading, pending, selections>>

notApp == <<pureVars, playerVars, cursorVars>>

Upload == (\E files \in FileLists : handleUpload(files)) /\ UNCHANGED notApp
Drop == (\E files \in FileLists : handleDrop(files)) /\ UNCHANGED notApp
Resolve == (\E h \in pending : resolve(h)) /\ UNCHANGED notApp
Clear == clearFile /\ UNCHANGED notApp

AppIdle ==
    /\ file = <<>>
    /\ fileType = "unknown"
    /\ validationError = <<>>
    /\ isLoading = FALSE
    /\ pending = {}
    /\ selections = 0
    /\ latest = 0
    /\ last = [op |-> "mount", id |-> 0, rejected |-> FALSE, dicom |-> FALSE]

\* ------------------------------------------------------------ VideoPlayer
\* App renders <VideoPlayer file fileType /> for a file that passed
\* validateFile, with the tag getDetailedFileType gave it
PlayerFiles == { f \in AppFiles : validateFile(f).isValid }

PlayerInit ==
    /\ vpInst = 0
    /\ vpProps = None
    /\ videoUrl = <<>>
    /\ capturedUrl = <<>>
    /\ renderingEngineRef = <<>>
    /\ vpError = <<>>
    /\ tasks = {}
    /\ effects = 0
    /\ liveUrls = {}
    /\ revokedUrls = {}
    /\ liveEngines = {}
    /\ destroyedEngines = {}
    /\ cleaned = {}
    /\ presented = <<>>

\* the effect's cleanup function: what it leaves of the object URLs, of the
\* rendering engines and of renderingEngineRef.  videoUrl is the value the
\* closure captured when the effect ran
urlsAfterCleanup == IF capturedUrl # <<>> THEN liveUrls \ {capturedUrl[1]} ELSE liveUrls

revokedAfterCleanup ==
    IF capturedUrl # <<>> THEN revokedUrls \cup {capturedUrl[1]} ELSE revokedUrls

enginesAfterCleanup ==
    IF renderingEngineRef # <<>> THEN liveEngines \ {renderingEngineRef[1]} ELSE liveEngines

destroyedAfterCleanup ==
    IF renderingEngineRef # <<>>
    THEN destroyedEngines \cup {renderingEngineRef[1]} ELSE destroyedEngines

\* the native element handleFile hands the object URL to: setupVideoPlayer
\* sets videoRef.current.src, handleRegularImage sets imageRef.current.src
nativeElement(type) == IF type = "regular-video" THEN "video" ELSE "img"

\* the effect body: handleFile() up to its first await, run by effect g of
\* instance inst for file f; urlNow, urls are the videoUrl state and the
\* object URLs before it
handleFile(g, inst, f, urlNow, urls) ==
    LET type == getDetailedFileType(f).tag
    IN  /\ capturedUrl' = urlNow
        /\ IF type = "dicom-video" \/ type = "dicom-image"
           THEN /\ tasks' = tasks \cup {[gen |-> g, inst |-> inst, f |-> f, pc |-> "csInit",
                                         isVideo |-> (type = "dicom-video")]}
                /\ videoUrl' = urlNow
                /\ liveUrls' = urls
                /\ vpError' = <<>>
                /\ presented' = Append(presented, [fileType |-> type, calls |-> {}])
           ELSE IF type = "regular-video" \/ type = "regular-image"
           THEN /\ tasks' = tasks \cup {[gen |-> g, inst |-> inst, f |-> f,
                                         pc |-> IF type = "regular-video"
                                                THEN "loadedmetadata" ELSE "onload",
                                         isVideo |-> FALSE]}
                /\ videoUrl' = <<g>>
                /\ liveUrls' = urls \cup {g}
                /\ vpError' = <<>>
                /\ presented' =
                      Append(presented,
                             [fileType |-> type,
                              calls |-> {"createObjectURL", nativeElement(type) \o ".src"}])
           ELSE /\ tasks' = tasks
                /\ videoUrl' = urlNow
                /\ liveUrls' = urls
                /\ vpError' = <<"Unsupported file type: ", type>>
                /\ presented' =
                      Append(presented,
                             [fileType |-> type,
                              calls |-> {"setError: Unsupported file type"}])

\* App's file goes from null to f: a new instance, its state and refs fresh
vpMount(f) ==
    /\ vpInst = 0
    /\ effects < MaxEffects
    /\ effects' = effects + 1
    /\ vpInst' = effects + 1
    /\ vpProps' = [gen |-> effects + 1, f |-> f, fileType |-> getDetailedFileType(f).tag]
    /\ renderingEngineRef' = <<>>
    /\ handleFile(effects + 1, effects + 1, f, <<>>, liveUrls)
    /\ UNCHANGED <<revokedUrls, liveEngines, destroyedEngines, cleaned>>

\* App's file goes from one file to another: the same instance re-renders,
\* the previous effect's cleanup runs, then the effect runs again
vpUpdate(f) ==
    /\ vpInst # 0
    /\ effects < MaxEffects
    /\ effects' = effects + 1
    /\ vpProps' = [gen |-> effects + 1, f |-> f, fileType |-> getDetailedFileType(f).tag]
    /\ cleaned' = cleaned \cup {vpProps.gen}
    /\ revokedUrls' = revokedAfterCleanup
    /\ liveEngines' = enginesAfterCleanup
    /\ destroyedEngines' = destroyedAfterCleanup
    /\ renderingEngineRef' = <<>>
    /\ handleFile(effects + 1, vpInst, f, videoUrl, urlsAfterCleanup)
    /\ UNCHANGED vpInst

\* App's file goes to null: the cleanup runs and the instance is gone
vpUnmount ==
    /\ vpInst # 0
    /\ vpInst' = 0
    /\ vpProps' = None
    /\ cleaned' = cleaned \cup {vpProps.gen}
    /\ liveUrls' = urlsAfterCleanup
    /\ revokedUrls' = revokedAfterCleanup
    /\ liveEngines' = enginesAfterCleanup
    /\ destroyedEngines' = destroyedAfterCleanup
    /\ renderingEngineRef' = <<>>
    /\ videoUrl' = <<>>
    /\ capturedUrl' = <<>>
    /\ vpError' = <<>>
    /\ UNCHANGED <<tasks, effects, presented>>

\* setError from a suspended run: a no-op once the run's instance is gone
setError(t, message) == IF t.inst = vpInst THEN message ELSE vpError

dicomError == <<"Failed to render DICOM file: ", "message">>

\* handleDicomFile resumes after await csInit()
afterCsInit(t, ok) ==
    /\ t.pc = "csInit"
    /\ IF ok
       THEN /\ tasks' = (tasks \ {t}) \cup {[t EXCEPT !.pc = "fileToImageId"]}
            /\ UNCHANGED vpError
       ELSE /\ tasks' = tasks \ {t}
            /\ vpError' = setError(t, dicomError)
    /\ UNCHANGED <<vpInst, vpProps, videoUrl, capturedUrl, renderingEngineRef, effects,
                   liveUrls, revokedUrls, liveEngines, destroyedEngines, cleaned, presented>>

\* type: isVideo ? Enums.ViewportType.VIDEO : Enums.ViewportType.STACK
viewportType_stack(isVideo) == "STACK"

viewportType(isVideo) == IF isVideo THEN "VIDEO" ELSE "STACK"

\* the presentation calls run g has made, with more added
called(g, more) == [presented EXCEPT ![g].calls = @ \cup more]

\* handleDicomFile resumes after await fileToImageId(file): new
\* RenderingEngine, renderingEngineRef.current = it, enableElement (ok: it
\* returns), and the run waits for setVideo or setStack
afterFileToImageId(t, ok) ==
    /\ t.pc = "fileToImageId"
    /\ IF ~fileToImageId(t.f)
       THEN /\ tasks' = tasks \ {t}
            /\ vpError' = setError(t, dicomError)
            /\ UNCHANGED <<liveEngines, renderingEngineRef, presented>>
       ELSE /\ liveEngines' = liveEngines \cup {t.gen}
            /\ renderingEngineRef' = IF t.inst = vpInst THEN <<t.gen>> ELSE renderingEngineRef
            /\ IF ok
               THEN /\ tasks' = (tasks \ {t}) \cup
                                {[t EXCEPT !.pc = IF t.isVideo THEN "setVideo" ELSE "setStack"]}
                    /\ presented' =
                          called(t.gen, {"new RenderingEngine",
                                         "enableElement " \o viewportType(t.isVideo),
                                         IF t.isVideo THEN "setVideo" ELSE "setStack"})
                    /\ UNCHANGED vpError
               ELSE /\ tasks' = tasks \ {t}
                    /\ presented' =
                          called(t.gen, {"new RenderingEngine",
                                         "enableElement " \o viewportType(t.isVideo)})
                    /\ vpError' = setError(t, dicomError)
    /\ UNCHANGED <<vpInst, vpProps, videoUrl, capturedUrl, effects,
                   liveUrls, revokedUrls, destroyedEngines, cleaned>>

\* handleDicomFile resumes after await viewport.setVideo / setStack: play
\* (video), render, or the catch
afterSetContent(t, ok) ==
    /\ t.pc \in {"setVideo", "setStack"}
    /\ tasks' = tasks \ {t}
    /\ vpError' = IF ok THEN vpError ELSE setError(t, dicomError)
    /\ presented' = IF ~ok THEN presented
                    ELSE IF t.isVideo THEN called(t.gen, {"play", "render"})
                    ELSE called(t.gen, {"render"})
    /\ UNCHANGED <<vpInst, vpProps, videoUrl, capturedUrl, renderingEngineRef, effects,
                   liveUrls, revokedUrls, liveEngines, destroyedEngines, cleaned>>

\* setupVideoPlayer / handleRegularImage resume: the element loaded (ok) or
\* its onerror rejected and handleFile's catch ran
afterMediaLoad(t, ok) ==
    /\ t.pc \in {"loadedmetadata", "onload"}
    /\ tasks' = tasks \ {t}
    /\ vpError' = IF ok THEN vpError
                  ELSE setError(t, <<"Failed to load file: ", "message">>)
    /\ presented' = IF ok /\ t.pc = "loadedmetadata"
                    THEN called(t.gen, {"video listeners"}) ELSE presented
    /\ UNCHANGED <<vpInst, vpProps, videoUrl, capturedUrl, renderingEngineRef, effects,
                   liveUrls, revokedUrls, liveEngines, destroyedEngines, cleaned>>

notPlayer == <<pureVars, appVars, cursorVars>>

Mount == (\E f \in PlayerFiles : vpMount(f)) /\ UNCHANGED notPlayer
Update == (\E f \in PlayerFiles : vpUpdate(f)) /\ UNCHANGED notPlayer
Unmount == vpUnmount /\ UNCHANGED notPlayer
CsInitDone == (\E t \in tasks, ok \in BOOLEAN : afterCsInit(t, ok)) /\ UNCHANGED notPlayer
FileToImageIdDone ==
    (\E t \in tasks, ok \in BOOLEAN : afterFileToImageId(t, ok)) /\ UNCHANGED notPlayer
SetContentDone ==
    (\E t \in tasks, ok \in BOOLEAN : afterSetContent(t, ok)) /\ UNCHANGED notPlayer
MediaLoadDone ==
    (\E t \in tasks, ok \in BOOLEAN : afterMediaLoad(t, ok)) /\ UNCHANGED notPlayer

\* ------------------------------------------------------- Referance_cursor
CursorInit ==
    /\ cMounted = FALSE
    /\ cEffects = 0
    /\ cInits = <<>>
    /\ cLiveEngines = {}
    /\ cToolGroup = <<>>
    /\ cCleaned = {}

\* the awaits of init() after the rendering engine exists, in order
loadSteps ==
    <<"createImageIdsAndCacheMetaData", "createAndCacheVolume", "volume.load",
      "setVolumes0", "setVolumes1", "setVolumes2", "setStack", "done">>

nextLoadStep(pc) == loadSteps[(CHOOSE i \in 1..Len(loadSteps) : loadSteps[i] = pc) + 1]

\* the component mounts (under React.StrictMode a second time right after the
\* first cleanup): the effect runs, `let renderingEngine = null`, and init()
\* runs to its first await; the four element refs are attached by then
cursorMount ==
    /\ ~cMounted
    /\ cEffects < MaxMounts
    /\ cMounted' = TRUE
    /\ cEffects' = cEffects + 1
    /\ cInits' = Append(cInits, "csRenderInit")
    /\ UNCHANGED <<cLiveEngines, cToolGroup, cCleaned>>

\* the cleanup of the current effect: renderingEngine?.destroy() on the
\* closure's variable, ToolGroupManager.destroyToolGroup(toolGroupId)
cursorCleanup ==
    /\ cMounted
    /\ cMounted' = FALSE
    /\ cLiveEngines' = cLiveEngines \ {cEffects}
    /\ cToolGroup' = <<>>
    /\ cCleaned' = cCleaned \cup {cEffects}
    /\ UNCHANGED <<cEffects, cInits>>

\* init() of effect k resumes after await csRenderInit()
afterCsRenderInit(k, ok) ==
    /\ cInits[k] = "csRenderInit"
    /\ cInits' = [cInits EXCEPT ![k] = IF ok THEN "csToolsInit" ELSE "rejected"]
    /\ UNCHANGED <<cMounted, cEffects, cLiveEngines, cToolGroup, cCleaned>>

\* init() of effect k resumes after await csToolsInit(): getToolGroup ??
\* createToolGroup, renderingEngine = new RenderingEngine, setViewports, and
\* it waits for createImageIdsAndCacheMetaData (engineOk: the engine calls
\* return)
afterCsToolsInit(k, ok, engineOk) ==
    /\ cInits[k] = "csToolsInit"
    /\ IF ~ok
       THEN /\ cInits' = [cInits EXCEPT ![k] = "rejected"]
            /\ UNCHANGED <<cLiveEngines, cToolGroup>>
       ELSE /\ cToolGroup' = IF cToolGroup = <<>> THEN <<k>> ELSE cToolGroup
            /\ cLiveEngines' = cLiveEngines \cup {k}
            /\ cInits' = [cInits EXCEPT ![k] = IF engineOk THEN loadSteps[1] ELSE "rejected"]
    /\ UNCHANGED <<cMounted, cEffects, cCleaned>>

\* init() of effect k resumes after one of its later awaits
afterLoadStep(k, ok) ==
    /\ cInits[k] \in { loadSteps[i] : i \in 1..(Len(loadSteps) - 1) }
    /\ cInits' = [cInits EXCEPT ![k] = IF ok THEN nextLoadStep(cInits[k]) ELSE "rejected"]
    /\ UNCHANGED <<cMounted, cEffects, cLiveEngines, cToolGroup, cCleaned>>

notCursor == <<pureVars, appVars, playerVars>>

CursorMount == cursorMount /\ UNCHANGED notCursor
CursorCleanup == cursorCleanup /\ UNCHANGED notCursor
CsRenderInitDone ==
    (\E k \in 1..Len(cInits), ok \in BOOLEAN : afterCsRenderInit(k, ok)) /\ UNCHANGED notCursor
CsToolsInitDone ==
    (\E k \in 1..Len(cInits), ok \in BOOLEAN, engineOk \in BOOLEAN :
        afterCsToolsInit(k, ok, engineOk)) /\ UNCHANGED notCursor
LoadStepDone ==
    (\E k \in 1..Len(cInits), ok \in BOOLEAN : afterLoadStep(k, ok)) /\ UNCHANGED notCursor

\* --------------------------------------------------------- specifications
\* App with its FileHandler calls
Init == AppInit /\ PureIdle /\ PlayerInit /\ CursorInit
Next == Upload \/ Drop \/ Resolve \/ Clear
Spec == Init /\ [][Next]_vars

\* FileHandler.validateFile and getDetailedFileType on every input
InitPure == PureInit /\ AppIdle /\ PlayerInit /\ CursorInit
NextPure == CallValidateFile \/ CallGetDetailedFileType
SpecPure == InitPure /\ [][NextPure]_vars

\* VideoPlayer under the props App gives it
InitPlayer == PureIdle /\ AppIdle /\ PlayerInit /\ CursorInit
NextPlayer ==
    Mount \/ Update \/ Unmount \/ CsInitDone \/ FileToImageIdDone \/ SetContentDone
    \/ MediaLoadDone
SpecPlayer == InitPlayer /\ [][NextPlayer]_vars

\* Referance_cursor under main.tsx
InitCursor == PureIdle /\ AppIdle /\ PlayerInit /\ CursorInit
NextCursor ==
    CursorMount \/ CursorCleanup \/ CsRenderInitDone \/ CsToolsInitDone \/ LoadStepDone
SpecCursor == InitCursor /\ [][NextCursor]_vars

\* ----------------------------------------------------------------- claims
\* C1: a classification that resolves for a file that is no longer the most
\* recently selected one is discarded: file / fileType only ever become the
\* latest selection.
C1_StaleResultDiscarded ==
    [][(file' # file /\ file' # <<>>) => file'[1].id = latest']_vars

\* C2: once the cleanup of an effect run has run, the object URL that run
\* created is revoked.
C2_UrlRevokedAfterCleanup == \A g \in cleaned : g \notin liveUrls

\* C3: once the cleanup of an effect run has run, no rendering engine that
\* run created is alive, and at most one rendering engine is alive.
C3_EngineDestroyedAfterCleanup ==
    /\ \A g \in cleaned : g \notin liveEngines
    /\ Cardinality(liveEngines) <= 1

\* C4: once the cleanup of a Referance_cursor effect has run, neither the
\* rendering engine nor the tool group its init() created is alive.
C4_CursorResourcesDestroyed ==
    \A k \in cCleaned : k \notin cLiveEngines /\ cToolGroup # <<k>>

\* C5: getDetailedFileType tries DICOM, video, image, unknown in this order
\* and the first match wins.
C5_FirstMatchWins ==
    pResult # None =>
        /\ pResult.ok
        /\ isDicomFile(pFile) => pResult.tag \in {"dicom-video", "dicom-image"}
        /\ ~isDicomFile(pFile) /\ isVideoFile(pFile) => pResult.tag = "regular-video"
        /\ ~isDicomFile(pFile) /\ ~isVideoFile(pFile) /\ isImageFile(pFile)
              => pResult.tag = "regular-image"
        /\ ~isDicomFile(pFile) /\ ~isVideoFile(pFile) /\ ~isImageFile(pFile)
              => pResult.tag = "unknown"
        /\ pFile.name = <<"v", "i", "d", "e", "o", ".", "m", "p", "4">>
              /\ pFile.type = <<"v", "i", "d", "e", "o", "/", "m", "p", "4">>
              => pResult.tag = "regular-video"
        /\ pFile.name = <<"s", "c", "a", "n", ".", "p", "n", "g">> /\ pFile.type = <<>>
              => pResult.tag = "regular-image"
        /\ pFile.name = <<"d", "a", "t", "a", ".", "x", "y", "z">> /\ pFile.type = <<>>
              => pResult.tag = "unknown"
        /\ pFile.name = <<"s", "c", "a", "n", ".", "d", "c", "m">>
              => pResult.tag \in {"dicom-video", "dicom-image"}

\* C5 witness: a file that matches the DICOM rule and the video rule was
\* classified as DICOM.
C5_Witness ==
    /\ pResult # None
    /\ isDicomFile(pFile) /\ isVideoFile(pFile)
    /\ pResult.tag \in {"dicom-video", "dicom-image"}

\* C6: for a DICOM candidate whose probe succeeds the tag is dicom-video
\* exactly when the SOP class is one of the eight video classes or the frame
\* count (multiframeModule's, else the direct lookup, else 1) exceeds 1, and
\* dicom-image otherwise.
C6_DicomVideoRule ==
    pResult # None /\ isDicomFile(pFile) /\ pFile.probe.fail = "none" =>
        LET probe == pFile.probe
            usable(v) == v # <<>> /\ v[1] # 0
            frames == IF usable(probe.mfm) THEN probe.mfm[1]
                      ELSE IF usable(probe.direct) THEN probe.direct[1]
                      ELSE 1
            sopIsVideo ==
                probe.sop \in { <<"1.2.840.10008.5.1.4.1.1.77.1.1.1">>,
                                <<"1.2.840.10008.5.1.4.1.1.77.1.2.1">>,
                                <<"1.2.840.10008.5.1.4.1.1.77.1.4.1">>,
                                <<"1.2.840.10008.5.1.4.1.1.181.1">>,
                                <<"1.2.840.10008.5.1.4.1.1.6.2">>,
                                <<"1.2.840.10008.5.1.4.1.1.3.1">>,
                                <<"1.2.840.10008.5.1.4.1.1.12.1">>,
                                <<"1.2.840.10008.5.1.4.1.1.12.2">> }
        IN  /\ pResult.tag = "dicom-video" <=> (sopIsVideo \/ frames > 1)
            /\ pResult.tag # "dicom-video" => pResult.tag = "dicom-image"

\* C6 witness: five frames and a SOP class outside the set gave dicom-video.
C6_Witness ==
    /\ pResult # None
    /\ isDicomFile(pFile)
    /\ pFile.probe.fail = "none"
    /\ pFile.probe.sop = <<CtImageStorage>>
    /\ pFile.probe.mfm = <<5>>
    /\ pResult.tag = "dicom-video"

\* C7: when registering the file or reading its metadata throws, the pending
\* classification of a DICOM candidate resolves to dicom-image, and no
\* handler of a DICOM candidate sets an 'Error processing file' message.
C7_ProbeFailureIsDicomImage ==
    /\ last.dicom =>
          (validationError = <<>> \/ validationError[1] # "Error processing file: ")
    /\ last.op = "resolve" =>
          /\ file # <<>>
          /\ file[1].id = last.id
          /\ fileType \in {"dicom-video", "dicom-image"}
          /\ file[1].f.probe.fail # "none" => fileType = "dicom-image"

\* C7 witness: a DICOM candidate whose registration throws was resolved.
C7_Witness ==
    /\ last.op = "resolve"
    /\ file # <<>>
    /\ file[1].f.probe.fail = "register"
    /\ fileType = "dicom-image"

\* C8: a file of size in (0, 200 MiB] validates with no errors.
C8_ValidSizesAccepted ==
    pValidation # None /\ 0 < pFile.size /\ pFile.size <= 209715200 =>
        pValidation.isValid /\ pValidation.errors = <<>>

\* C8 witness: a file of exactly 209,715,200 bytes validated.
C8_Witness ==
    /\ pValidation # None
    /\ pFile.size = 209715200
    /\ pValidation.isValid

\* C9: validateFile returns exactly the messages of the triggered rules, the
\* over-size message (size > 209,715,200) before the empty message
\* (size = 0), and isValid is true iff there is no message.
C9_RulesIndependent ==
    pValidation # None =>
        LET big == pFile.size > 209715200
            empty == pFile.size = 0
            errors == pValidation.errors
        IN  /\ Len(errors) = (IF big THEN 1 ELSE 0) + (IF empty THEN 1 ELSE 0)
            /\ big => /\ errors[1][1] = "File too large ("
                      /\ errors[1][Len(errors[1])] = " > 200MB)"
            /\ empty => errors[Len(errors)] = <<"File is empty">>
            /\ pValidation.isValid <=> (errors = <<>>)

\* C9 witness: a file of 200 MiB + 1 byte was rejected as too large.
C9_Witness ==
    /\ pValidation # None
    /\ pFile.size = 209715201
    /\ ~pValidation.isValid
    /\ Len(pValidation.errors) = 1
    /\ pValidation.errors[1][1] = "File too large ("

\* C10: when validateFile rejects the file of handleUpload or handleDrop, the
\* handler leaves the validation error set, no file active and no
\* classification started for the rejected file.
C10_RejectedFileBlocks ==
    last.rejected =>
        /\ validationError # <<>>
        /\ file = <<>>
        /\ \A h \in pending : h.id # last.id

\* C11: every run of handleFile follows the one presentation path of its
\* fileType and no other: regular-video creates an object URL for the video
\* element, regular-image creates one for the img element, dicom-video uses an
\* engine viewport of type VIDEO with setVideo and play, dicom-image an engine
\* viewport of type STACK with setStack, and unknown creates neither an object
\* URL nor a rendering engine and sets the error Unsupported file type.
C11_OnePresentationPath ==
    \A g \in 1..Len(presented) :
        LET type == presented[g].fileType
            calls == presented[g].calls
            hasUrl == g \in liveUrls \cup revokedUrls
            hasEngine == g \in liveEngines \cup destroyedEngines
        IN  /\ type = "regular-video" =>
                  /\ {"createObjectURL", "video.src"} \subseteq calls
                  /\ calls \subseteq {"createObjectURL", "video.src", "video listeners"}
                  /\ hasUrl /\ ~hasEngine
            /\ type = "regular-image" =>
                  /\ calls = {"createObjectURL", "img.src"}
                  /\ hasUrl /\ ~hasEngine
            /\ type = "dicom-video" =>
                  /\ calls \subseteq {"new RenderingEngine", "enableElement VIDEO",
                                      "setVideo", "play", "render"}
                  /\ hasEngine <=> "enableElement VIDEO" \in calls
                  /\ "render" \in calls =>
                        {"enableElement VIDEO", "setVideo", "play"} \subseteq calls
                  /\ ~hasUrl
            /\ type = "dicom-image" =>
                  /\ calls \subseteq {"new RenderingEngine", "enableElement STACK",
                                      "setStack", "render"}
                  /\ hasEngine <=> "enableElement STACK" \in calls
                  /\ "render" \in calls =>
                        {"enableElement STACK", "setStack"} \subseteq calls
                  /\ ~hasUrl
            /\ type = "unknown" =>
                  /\ calls = {"setError: Unsupported file type"}
                  /\ ~hasUrl /\ ~hasEngine
            /\ "setError: Unsupported file type" \in calls => type = "unknown"

\* C11 witness: a dicom-video run has enabled a VIDEO viewport, set the video,
\* started playback and rendered, after an unknown file was refused.
C11_Witness ==
    \E g, u \in 1..Len(presented) :
        /\ presented[g].fileType = "dicom-video"
        /\ {"enableElement VIDEO", "setVideo", "play", "render"} \subseteq presented[g].calls
        /\ presented[u].fileType = "unknown"
        /\ presented[u].calls = {"setError: Unsupported file type"}

\* C12: an error thrown by the rendering engine during viewport setup never
\* escapes as an unhandled rejection of the fire-and-forget async call; for
\* Referance_cursor this says that no init() call ends rejected.
C12_EngineErrorsCaught ==
    \A k \in 1..Len(cInits) : cInits[k] # "rejected"

\* C14 as stated: every extension test and every MIME test ignores letter
\* case, and every MIME test (application/dicom included) is a substring
\* test: a file whose name ends in .dcm or whose type contains
\* application/dicom, in any letter case, is classified as DICOM, and
\* otherwise one whose name ends in a video extension or whose type contains
\* a video MIME type, in any letter case, is classified regular-video.
C14_CaseInsensitiveTests ==
    pResult # None =>
        LET fold(c) == IF \E i \in 1..26 : UpperCase[i] = c
                       THEN LowerCase[CHOOSE i \in 1..26 : UpperCase[i] = c] ELSE c
            at(s, k, sub) == \A i \in 1..Len(sub) : fold(s[k + i]) = sub[i]
            ciSuffix(s, sub) == Len(s) >= Len(sub) /\ at(s, Len(s) - Len(sub), sub)
            ciSubstring(s, sub) == \E k \in 0..(Len(s) - Len(sub)) : at(s, k, sub)
            dicom == \/ ciSuffix(pFile.name, dcmExtension)
                     \/ ciSubstring(pFile.type, dicomMimeType)
            video == \/ \E i \in 1..Len(videoExtensions) :
                            ciSuffix(pFile.name, videoExtensions[i])
                     \/ \E i \in 1..Len(videoMimeTypes) :
                            ciSubstring(pFile.type, videoMimeTypes[i])
        IN  /\ dicom => pResult.tag \in {"dicom-video", "dicom-image"}
            /\ ~dicom /\ video => pResult.tag = "regular-video"

\* C14 amended: name tests are suffix tests that ignore letter case; MIME
\* tests read file.type as given, without case folding: the DICOM test is
\* equality with application/dicom, the video and image tests are substring
\* tests.  The tag is dicom-* exactly for DICOM candidates, else
\* regular-video exactly for video matches, else regular-image exactly for
\* image matches, else unknown.
C14_NameFoldsCaseMimeAsGiven ==
    pResult # None =>
        LET sameLetter(a, b) ==
                \/ a = b
                \/ \E i \in 1..26 : {a, b} = {UpperCase[i], LowerCase[i]}
            ciSuffix(s, sub) ==
                /\ Len(s) >= Len(sub)
                /\ \A i \in 1..Len(sub) : sameLetter(s[Len(s) - Len(sub) + i], sub[i])
            substring(s, sub) ==
                \E k \in 0..(Len(s) - Len(sub)) : \A i \in 1..Len(sub) : s[k + i] = sub[i]
            dicom == \/ ciSuffix(pFile.name, dcmExtension)
                     \/ pFile.type = dicomMimeType
            video == \/ \E i \in 1..Len(videoExtensions) :
                            ciSuffix(pFile.name, videoExtensions[i])
                     \/ \E i \in 1..Len(videoMimeTypes) :
                            substring(pFile.type, videoMimeTypes[i])
            image == \/ \E i \in 1..Len(imageExtensions) :
                            ciSuffix(pFile.name, imageExtensions[i])
                     \/ \E i \in 1..Len(imageMimeTypes) :
                            substring(pFile.type, imageMimeTypes[i])
        IN  /\ pResult.tag \in {"dicom-video", "dicom-image"} <=> dicom
            /\ pResult.tag = "regular-video" <=> ~dicom /\ video
            /\ pResult.tag = "regular-image" <=> ~dicom /\ ~video /\ image
            /\ pResult.tag = "unknown" <=> ~dicom /\ ~video /\ ~image

\* C14 witness: File.Dcm, whose type is not application/dicom, was classified
\* as DICOM by its name alone, in mixed letter case.
C14_Witness ==
    /\ pResult # None
    /\ pFile.name = <<"F", "i", "l", "e", ".", "D", "c", "m">>
    /\ pFile.type # dicomMimeType
    /\ pResult.tag \in {"dicom-video", "dicom-image"}

\* C15: in every reachable state of App either file is null and fileType is
\* unknown, or fileType is the tag getDetailedFileType returns for the file
\* held in file.
C15_FileTypeMatchesFile ==
    IF file = <<>>
    THEN fileType = "unknown"
    ELSE fileType = getDetailedFileType(file[1].f).tag

\* C15 witness: a pending DICOM classification completed after a later
\* selection; file and fileType both describe the file of the completed call.
C15_Witness ==
    /\ file # <<>>
    /\ last.op = "resolve"
    /\ last.id = file[1].id
    /\ latest # file[1].id
    /\ fileType \in {"dicom-video", "dicom-image"}
    /\ selections >= 2

\* C16: whenever App holds a file, validationError is empty: no validation
\* error of a rejected file is shown together with a loaded file.
C16_NoErrorWithLoadedFile ==
    file # <<>> => validationError = <<>>

====
